---- MODULE Spec2Model ----
(***************************************************************************)
(* Bug Bounty Program Monitor (src/main.py).                               *)
(*                                                                         *)
(* JSON values are tagged records:                                         *)
(*   [t |-> "null"], [t |-> "str", s], [t |-> "num", n],                   *)
(*   [t |-> "list", items], [t |-> "dict", entries] (the entries [k, v] of  *)
(*   an object in insertion order, keys unique).                           *)
(* Python strings produced by the program (target identifiers, platform    *)
(* names) are TLA+ strings; lists built by list(set) are sets.             *)
(***************************************************************************)
EXTENDS Integers, Sequences, FiniteSets, TLC

VARIABLES
    pc,              \* position of the process: main, the run loop, the adapters, exit
    env,             \* the three environment values, present or not
    file,            \* bounty_monitor_state.json
    previous_state,  \* BountyMonitor.previous_state
    loaded,          \* what load_state returned to the constructor (history)
    idx,             \* index into self.platforms of the run loop
    all_changes,     \* run(): all_changes
    upstream,        \* what each platform's URL serves (history of the fetches)
    runNo,           \* first or second process run
    discordLog,      \* delivery attempts of send_discord_notification
    telegramLog,     \* delivery attempts of send_telegram_notification
    sendPos,         \* position of the adapter loop in all_changes
    failures,        \* delivery attempts that raised
    reads,           \* reads of the state file by this process
    writes,          \* save_state calls of this process
    visited,         \* platforms fetched by this process, in order
    cmp,             \* the last run-loop iteration / compare_programs call
    firstSaved,      \* the file as the first run left it
    firstChanges,    \* all_changes of the first run
    program,         \* argument of extract_targets
    targets          \* result of extract_targets

vars == <<pc, env, file, previous_state, loaded, idx, all_changes, upstream, runNo,
          discordLog, telegramLog, sendPos, failures, reads, writes, visited,
          cmp, firstSaved, firstChanges, program, targets>>

(***************************************************************************)
(* Bounds                                                                  *)
(***************************************************************************)
MaxItems == 2        \* items in a flat targets list (extract_targets inputs)
MaxPrograms == 2     \* programs in one platform's list (compare_programs inputs)
MaxLive == 2         \* platforms that serve data in one run
MaxFailures == 2     \* delivery attempts that raise in one run

(***************************************************************************)
(* JSON values and the Python operations on them                           *)
(***************************************************************************)
Null == [t |-> "null"]
Str(s) == [t |-> "str", s |-> s]
Num(n) == [t |-> "num", n |-> n]
List(items) == [t |-> "list", items |-> items]
Dict(entries) == [t |-> "dict", entries |-> entries]

\* bool(v)
Truthy(v) ==
    CASE v.t = "null" -> FALSE
      [] v.t = "str" -> v.s # ""
      [] v.t = "num" -> v.n # 0
      [] v.t = "list" -> v.items # <<>>
      [] v.t = "dict" -> v.entries # <<>>

\* a or b
Or(a, b) == IF Truthy(a) THEN a ELSE b

\* k in d
HasKey(d, k) == \E i \in DOMAIN d.entries : d.entries[i].k = k

\* d[k]
At(d, k) == d.entries[CHOOSE i \in DOMAIN d.entries : d.entries[i].k = k].v

\* d.get(k)
Get(d, k) == IF HasKey(d, k) THEN At(d, k) ELSE Null

Digit == <<"0", "1", "2", "3", "4", "5", "6", "7", "8", "9">>

RECURSIVE NatStr(_)
NatStr(n) == IF n < 10 THEN Digit[n + 1] ELSE NatStr(n \div 10) \o Digit[(n % 10) + 1]

\* str(v) for the values an identifier field holds
PyStr(v) ==
    CASE v.t = "str" -> v.s
      [] v.t = "num" -> IF v.n < 0 THEN "-" \o NatStr(0 - v.n) ELSE NatStr(v.n)

\* usable as a dict key
Hashable(v) == v.t \in {"null", "str", "num"}

(***************************************************************************)
(* extract_targets                                                         *)
(***************************************************************************)
ItemTarget_mut(item) ==
    Or(Or(Get(item, "asset_identifier"), Get(item, "endpoint")), Get(item, "target"))

\* item.get('target') or item.get('endpoint') or item.get('asset_identifier')
ItemTarget(item) ==
    Or(Or(Get(item, "target"), Get(item, "endpoint")), Get(item, "asset_identifier"))

\* one iteration of the item loops
AddItem(acc, item) ==
    IF item.t = "dict"
    THEN LET target == ItemTarget(item)
         IN IF Truthy(target) THEN acc \cup {PyStr(target)} ELSE acc
    ELSE IF item.t = "str" THEN acc \cup {item.s}
    ELSE acc

RECURSIVE AddItems(_, _, _)
AddItems(acc, items, i) ==
    IF i > Len(items) THEN acc
    ELSE AddItems(AddItem(acc, items[i]), items, i + 1)

RECURSIVE AddCategories(_, _, _)
AddCategories(acc, entries, i) ==
    IF i > Len(entries) THEN acc
    ELSE LET items == entries[i].v
         IN AddCategories(IF items.t = "list" THEN AddItems(acc, items.items, 1) ELSE acc,
                          entries, i + 1)

extract_targets(prog) ==
    IF HasKey(prog, "targets")
    THEN LET tg == At(prog, "targets")
         IN IF tg.t = "dict" THEN AddCategories({}, tg.entries, 1)
            ELSE IF tg.t = "list" THEN AddItems({}, tg.items, 1)
            ELSE {}
    ELSE {}

(***************************************************************************)
(* compare_programs                                                        *)
(***************************************************************************)
Platforms == <<"hackerone", "bugcrowd", "intigriti", "yeswehack", "hackenproof">>

PlatformSet == {Platforms[i] : i \in DOMAIN Platforms}

\* program.get('name') or program.get('handle') or program.get('program_name')
ResolveName(prog) ==
    Or(Or(Get(prog, "name"), Get(prog, "handle")), Get(prog, "program_name"))

\* program.get('url') or f"https://{platform}.com"
ProgramUrl(prog, platform) ==
    Or(Get(prog, "url"), Str("https://" \o platform \o ".com"))

Added_mut(current_targets, previous_targets) == current_targets

\* added = current_targets - previous_targets
Added(current_targets, previous_targets) == current_targets \ previous_targets

\* removed = previous_targets - current_targets
Removed(current_targets, previous_targets) == previous_targets \ current_targets

\* d[k] = v on a dict held as a function
Put(d, k, v) == [x \in DOMAIN d \cup {k} |-> IF x = k THEN v ELSE d[x]]

\* the records one program appends to changes (lines 88-115)
ProgramChanges(prev, platform, prog, program_name, current_targets) ==
    IF platform \in DOMAIN prev
    THEN IF program_name \in DOMAIN prev[platform]
         THEN LET previous_targets == prev[platform][program_name]
                  added == Added(current_targets, previous_targets)
                  removed == Removed(current_targets, previous_targets)
              IN IF added # {} \/ removed # {}
                 THEN << [platform |-> platform, program |-> program_name,
                          added |-> added, removed |-> removed,
                          url |-> ProgramUrl(prog, platform), new_program |-> FALSE] >>
                 ELSE << >>
         ELSE IF current_targets # {}
              THEN << [platform |-> platform, program |-> program_name,
                       added |-> current_targets, removed |-> {},
                       url |-> ProgramUrl(prog, platform), new_program |-> TRUE] >>
              ELSE << >>
    ELSE << >>

StoreSnapshot_mut(prev, platform, current_state) ==
    Put(prev, platform,
        IF platform \in DOMAIN prev
        THEN [n \in DOMAIN prev[platform] \cup DOMAIN current_state |->
                 IF n \in DOMAIN current_state THEN current_state[n] ELSE prev[platform][n]]
        ELSE current_state)

\* self.previous_state[platform] = current_state (lines 118-120)
StoreSnapshot(prev, platform, current_state) == Put(prev, platform, current_state)

\* the loop of lines 80-115 from program i on, then lines 117-122; raised: an
\* exception left compare_programs (a non-dict entry has no .get, an unhashable
\* name cannot key current_state) before previous_state was touched
RECURSIVE CompareLoop(_, _, _, _, _, _)
CompareLoop(prev, platform, current_data, i, changes, current_state) ==
    IF i > Len(current_data)
    THEN [raised |-> FALSE, changes |-> changes,
          previous_state |-> StoreSnapshot(prev, platform, current_state)]
    ELSE LET prog == current_data[i]
         IN IF prog.t # "dict"
            THEN [raised |-> TRUE, changes |-> << >>, previous_state |-> prev]
            ELSE LET program_name == ResolveName(prog)
                 IN IF ~Truthy(program_name)
                    THEN CompareLoop(prev, platform, current_data, i + 1, changes, current_state)
                    ELSE IF ~Hashable(program_name)
                    THEN [raised |-> TRUE, changes |-> << >>, previous_state |-> prev]
                    ELSE LET current_targets == extract_targets(prog)
                         IN CompareLoop(prev, platform, current_data, i + 1,
                                changes \o ProgramChanges(prev, platform, prog,
                                                          program_name, current_targets),
                                Put(current_state, program_name, current_targets))

compare_programs(prev, platform, current_data) ==
    CompareLoop(prev, platform, current_data, 1, << >>, << >>)

(***************************************************************************)
(* Input sets                                                              *)
(***************************************************************************)
Absent == [t |-> "absent"]      \* a key the object does not have

IsPresent(e) == e.v.t # "absent"

\* the object with the listed keys, those marked Absent left out
Fields(entries) == Dict(SelectSeq(entries, IsPresent))

SeqsUpTo(S, n) == UNION {[1..k -> S] : k \in 0..n}

ObjItems ==
    {Fields(<< [k |-> "target", v |-> a], [k |-> "endpoint", v |-> b],
               [k |-> "asset_identifier", v |-> c] >>) :
        a \in {Absent, Str(""), Str("t.com")},
        b \in {Absent, Num(0), Str("e.com")},
        c \in {Absent, Num(5), Str("x.com")}}

PlainItems == {Str("y.apk"), Str("5"), Str(""), Null, Num(7), List(<< Str("z.com") >>)}

Items == ObjItems \cup PlainItems

CatItems ==
    {Str("y.apk"), Str("x.com"), Num(7),
     Fields(<< [k |-> "asset_identifier", v |-> Str("x.com")] >>),
     Fields(<< [k |-> "endpoint", v |-> Str("e.com")],
               [k |-> "asset_identifier", v |-> Str("x.com")] >>)}

CatVals == {List(l) : l \in SeqsUpTo(CatItems, 1)} \cup {Str("n/a")}

Categories == {"web", "mobile"}

CatEntries ==
    {e \in SeqsUpTo([k : Categories, v : CatVals], Cardinality(Categories)) :
        \A i, j \in DOMAIN e : e[i].k = e[j].k => i = j}

TargetsVals ==
    {Absent, Null, Str("a.com")}
        \cup {List(l) : l \in SeqsUpTo(Items, MaxItems)}
        \cup {Dict(e) : e \in CatEntries}

ExtractPrograms ==
    {Fields(<< [k |-> "name", v |-> Str("Acme")], [k |-> "targets", v |-> tg] >>) :
        tg \in TargetsVals}

\* spec.md section 8: {"web":[{"asset_identifier":"x.com"}], "mobile":["y.apk"]}
ScenarioProgram ==
    Fields(<< [k |-> "name", v |-> Str("Acme")],
              [k |-> "targets", v |->
                  Dict(<< [k |-> "web", v |-> List(<< Fields(<< [k |-> "asset_identifier",
                                                                v |-> Str("x.com")] >>) >>)],
                          [k |-> "mobile", v |-> List(<< Str("y.apk") >>)] >>)] >>)

StrList(S) == List([i \in 1..Len(S) |-> Str(S[i])])

NameFields ==
    { << Str("Acme"), Absent, Absent >>, << Str(""), Str("Beta"), Absent >>,
      << Absent, Str("Beta"), Absent >>, << Absent, Absent, Str("Gamma") >>,
      << Absent, Absent, Absent >>, << Str("Acme"), Str("Beta"), Str("Gamma") >> }

DiffTargets == {StrList(<< "a.com", "b.com" >>), StrList(<< "b.com", "c.com" >>), StrList(<< >>)}

DiffPrograms ==
    {Fields(<< [k |-> "name", v |-> n[1]], [k |-> "handle", v |-> n[2]],
               [k |-> "program_name", v |-> n[3]], [k |-> "targets", v |-> tg] >>) :
        n \in NameFields, tg \in DiffTargets}
    \cup {Str("oops"),
          Fields(<< [k |-> "name", v |-> StrList(<< "Acme" >>)],
                    [k |-> "targets", v |-> StrList(<< "a.com" >>)] >>),
          Fields(<< [k |-> "name", v |-> Str("Acme")], [k |-> "url", v |-> Str("https://acme.example")],
                    [k |-> "targets", v |-> StrList(<< "c.com" >>)] >>)}

DiffData == SeqsUpTo(DiffPrograms, MaxPrograms) \ {<< >>}

\* a snapshot: program name -> list of identifiers
Snap1 == [n \in {Str("Acme")} |-> {"a.com", "b.com"}]

Snap2 == [n \in {Str("Acme"), Str("Beta")} |-> IF n = Str("Acme") THEN {"a.com", "b.com"} ELSE {"c.com"}]

PriorStates_Two == [p \in {"hackerone", "bugcrowd"} |-> IF p = "hackerone" THEN Snap2 ELSE << >>]

PriorStates ==
    { << >>,
      [p \in {"hackerone"} |-> Snap1],
      [p \in {"hackerone"} |-> << >>],
      PriorStates_Two }

(***************************************************************************)
(* State                                                                   *)
(***************************************************************************)
NoFile == [exists |-> FALSE]

NoCmp == [called |-> FALSE]

\* the variables of the process before main() has run
Idle ==
    /\ env = [webhook |-> FALSE, token |-> FALSE, chat |-> FALSE]
    /\ file = NoFile
    /\ loaded = << >>
    /\ idx = 1
    /\ all_changes = << >>
    /\ upstream = << >>
    /\ runNo = "first"
    /\ discordLog = << >>
    /\ telegramLog = << >>
    /\ sendPos = 1
    /\ failures = 0
    /\ reads = 0
    /\ writes = 0
    /\ visited = << >>
    /\ cmp = NoCmp
    /\ firstSaved = NoFile
    /\ firstChanges = << >>

(***************************************************************************)
(* extract_targets on its own                                              *)
(***************************************************************************)
InitExtract ==
    /\ Idle
    /\ previous_state = << >>
    /\ pc = "extract_call"
    /\ program \in ExtractPrograms
    /\ targets = {}

ExtractTargets ==
    /\ pc = "extract_call"
    /\ targets' = extract_targets(program)
    /\ pc' = "extract_return"
    /\ UNCHANGED <<loaded, env, file, previous_state, idx, all_changes, upstream, runNo,
                   discordLog, telegramLog, sendPos, failures, reads, writes,
                   visited, cmp, firstSaved, firstChanges, program>>

NextExtract == ExtractTargets

SpecExtract == InitExtract /\ [][NextExtract]_vars

(***************************************************************************)
(* compare_programs on its own                                             *)
(***************************************************************************)
InitDiff ==
    /\ Idle
    /\ previous_state \in PriorStates
    /\ pc = "compare_call"
    /\ program = Null
    /\ targets = {}

\* one call compare_programs(platform, current_data) on self.previous_state = prev
CallCompare(prev, platform, current_data) ==
    LET r == compare_programs(prev, platform, current_data)
    IN /\ cmp' = [called |-> TRUE, platform |-> platform, data |-> current_data,
                  before |-> prev, raised |-> r.raised, changes |-> r.changes]
       /\ previous_state' = r.previous_state

ComparePrograms ==
    /\ pc = "compare_call"
    /\ \E platform \in PlatformSet, current_data \in DiffData :
          CallCompare(previous_state, platform, current_data)
    /\ pc' = "compare_return"
    /\ UNCHANGED <<loaded, env, file, idx, all_changes, upstream, runNo, discordLog,
                   telegramLog, sendPos, failures, reads, writes, visited,
                   firstSaved, firstChanges, program, targets>>

NextDiff == ComparePrograms

SpecDiff == InitDiff /\ [][NextDiff]_vars

(***************************************************************************)
(* The process: main(), BountyMonitor.run() and the adapters               *)
(***************************************************************************)
NoMonitor == [constructed |-> FALSE]    \* no BountyMonitor object exists

\* the key json.dump writes for a dict key
JsonKey(k) ==
    CASE k.t = "str" -> k
      [] k.t = "num" -> Str(PyStr(k))
      [] k.t = "null" -> Str("null")

\* json.dump(state) followed by json.load: keys become strings
DumpSnapshot(snap) ==
    [s \in {JsonKey(k) : k \in DOMAIN snap} |->
        snap[CHOOSE k \in DOMAIN snap : JsonKey(k) = s]]

\* save_state
save_state(state) ==
    [exists |-> TRUE, content |-> [p \in DOMAIN state |-> DumpSnapshot(state[p])]]

\* load_state
load_state(f) == IF f.exists THEN f.content ELSE << >>

ConfigMissing_mut(e) == ~e.webhook /\ ~e.token /\ e.chat

\* not DISCORD_WEBHOOK and not TELEGRAM_BOT_TOKEN (line 290)
ConfigMissing(e) == ~e.webhook /\ ~e.token

\* send_discord_notification does not return at line 126
DiscordOn(e) == e.webhook

\* send_telegram_notification does not return at line 196
TelegramOn(e) == e.token /\ e.chat

GotData_mut(current_data) == TRUE

\* if current_data: (line 259)
GotData(current_data) == current_data # << >>

AfterAttempt_mut(pos, ok, n) == IF ok THEN pos + 1 ELSE n + 1

\* the for loop of an adapter goes on to the next change whether or not the
\* POST raised (the try/except of lines 185-192 and 232-245)
AfterAttempt(pos, ok, n) == pos + 1

AcmeAB ==
    Fields(<< [k |-> "name", v |-> Str("Acme")],
              [k |-> "targets", v |-> StrList(<< "a.com", "b.com" >>)] >>)

AcmeBC ==
    Fields(<< [k |-> "name", v |-> Str("Acme")],
              [k |-> "targets", v |-> StrList(<< "b.com", "c.com" >>)] >>)

BetaC ==
    Fields(<< [k |-> "handle", v |-> Str("Beta")],
              [k |-> "targets", v |-> Dict(<< [k |-> "web", v |-> StrList(<< "c.com" >>)] >>)] >>)

\* what a platform's URL can serve, besides nothing
RunData ==
    { << AcmeAB >>, << AcmeBC >>, << AcmeAB, AcmeBC >>, << AcmeBC, BetaC >>,
      << Str("oops") >>, << AcmeAB, Str("oops") >> }

InitFiles == {NoFile, save_state([p \in {"hackerone"} |-> Snap1]), save_state(PriorStates_Two)}

Envs == [webhook : BOOLEAN, token : BOOLEAN, chat : BOOLEAN]

Init ==
    /\ pc = "main"
    /\ env \in Envs
    /\ file \in InitFiles
    /\ previous_state = NoMonitor
    /\ loaded = << >>
    /\ idx = 1
    /\ all_changes = << >>
    /\ upstream = << >>
    /\ runNo = "first"
    /\ discordLog = << >>
    /\ telegramLog = << >>
    /\ sendPos = 1
    /\ failures = 0
    /\ reads = 0
    /\ writes = 0
    /\ visited = << >>
    /\ cmp = NoCmp
    /\ firstSaved = NoFile
    /\ firstChanges = << >>
    /\ program = Null
    /\ targets = {}

\* main() up to monitor.run(): the configuration check, then the constructor
Main ==
    /\ pc = "main"
    /\ IF ConfigMissing(env)
       THEN /\ pc' = "exit_noconfig"
            /\ UNCHANGED <<loaded, previous_state, reads>>
       ELSE /\ previous_state' = load_state(file)
            /\ loaded' = load_state(file)
            /\ reads' = IF file.exists THEN reads + 1 ELSE reads
            /\ pc' = "run_loop"
    /\ UNCHANGED <<env, file, idx, all_changes, upstream, runNo, discordLog,
                   telegramLog, sendPos, failures, writes, visited, cmp,
                   firstSaved, firstChanges, program, targets>>

Live == {p \in DOMAIN upstream : upstream[p] # << >>}

\* what fetch_program_data returns for the platform: [] on any error, else the
\* served list; the second run is served what the first was
Fetched(platform, current_data) ==
    IF runNo = "first"
    THEN current_data = << >> \/ (current_data \in RunData /\ Cardinality(Live) < MaxLive)
    ELSE current_data = upstream[platform]

\* one iteration of the loop of run() (lines 255-269)
RunPlatform ==
    /\ pc = "run_loop"
    /\ LET platform == Platforms[idx]
       IN \E current_data \in RunData \cup {<< >>} :
             /\ Fetched(platform, current_data)
             /\ upstream' = Put(upstream, platform, current_data)
             /\ visited' = Append(visited, platform)
             /\ IF GotData(current_data)
                THEN LET r == compare_programs(previous_state, platform, current_data)
                     IN /\ cmp' = [called |-> TRUE, platform |-> platform,
                                   data |-> current_data, before |-> previous_state,
                                   raised |-> r.raised, changes |-> r.changes]
                        /\ previous_state' = r.previous_state
                        /\ all_changes' = all_changes \o r.changes
                        /\ IF r.raised
                           THEN pc' = "crashed" /\ idx' = idx
                           ELSE /\ idx' = idx + 1
                                /\ pc' = IF idx = Len(Platforms) THEN "notify" ELSE "run_loop"
                ELSE /\ cmp' = [called |-> FALSE, platform |-> platform,
                                data |-> current_data, before |-> previous_state,
                                raised |-> FALSE, changes |-> << >>]
                     /\ idx' = idx + 1
                     /\ pc' = IF idx = Len(Platforms) THEN "notify" ELSE "run_loop"
                     /\ UNCHANGED <<loaded, previous_state, all_changes>>
    /\ UNCHANGED <<loaded, env, file, runNo, discordLog, telegramLog, sendPos, failures,
                   reads, writes, firstSaved, firstChanges, program, targets>>

\* if all_changes: (line 272)
BeginNotify ==
    /\ pc = "notify"
    /\ pc' = IF all_changes # << >> THEN "discord" ELSE "save"
    /\ sendPos' = 1
    /\ UNCHANGED <<loaded, env, file, previous_state, idx, all_changes, upstream, runNo,
                   discordLog, telegramLog, failures, reads, writes, visited, cmp,
                   firstSaved, firstChanges, program, targets>>

\* one iteration of the loop of send_discord_notification: the POST of one
\* change, which raises or not
SendDiscord ==
    /\ pc = "discord"
    /\ DiscordOn(env)
    /\ sendPos <= Len(all_changes)
    /\ \E ok \in BOOLEAN :
          /\ ok \/ failures < MaxFailures
          /\ failures' = IF ok THEN failures ELSE failures + 1
          /\ discordLog' = Append(discordLog, [change |-> sendPos, ok |-> ok])
          /\ sendPos' = AfterAttempt(sendPos, ok, Len(all_changes))
    /\ UNCHANGED <<loaded, pc, env, file, previous_state, idx, all_changes, upstream, runNo,
                   telegramLog, reads, writes, visited, cmp, firstSaved,
                   firstChanges, program, targets>>

\* send_discord_notification returns: no webhook, or the loop is over
EndDiscord ==
    /\ pc = "discord"
    /\ ~DiscordOn(env) \/ sendPos > Len(all_changes)
    /\ pc' = "telegram"
    /\ sendPos' = 1
    /\ UNCHANGED <<loaded, env, file, previous_state, idx, all_changes, upstream, runNo,
                   discordLog, telegramLog, failures, reads, writes, visited, cmp,
                   firstSaved, firstChanges, program, targets>>

\* one iteration of the loop of send_telegram_notification
SendTelegram ==
    /\ pc = "telegram"
    /\ TelegramOn(env)
    /\ sendPos <= Len(all_changes)
    /\ \E ok \in BOOLEAN :
          /\ ok \/ failures < MaxFailures
          /\ failures' = IF ok THEN failures ELSE failures + 1
          /\ telegramLog' = Append(telegramLog, [change |-> sendPos, ok |-> ok])
          /\ sendPos' = AfterAttempt(sendPos, ok, Len(all_changes))
    /\ UNCHANGED <<loaded, pc, env, file, previous_state, idx, all_changes, upstream, runNo,
                   discordLog, reads, writes, visited, cmp, firstSaved,
                   firstChanges, program, targets>>

\* send_telegram_notification returns: no token or no chat id, or the loop is over
EndTelegram ==
    /\ pc = "telegram"
    /\ ~TelegramOn(env) \/ sendPos > Len(all_changes)
    /\ pc' = "save"
    /\ sendPos' = 1
    /\ UNCHANGED <<loaded, env, file, previous_state, idx, all_changes, upstream, runNo,
                   discordLog, telegramLog, failures, reads, writes, visited, cmp,
                   firstSaved, firstChanges, program, targets>>

\* self.save_state(self.previous_state) (line 281), then the process ends
SaveState ==
    /\ pc = "save"
    /\ file' = save_state(previous_state)
    /\ writes' = writes + 1
    /\ pc' = "done"
    /\ firstSaved' = IF runNo = "first" THEN file' ELSE firstSaved
    /\ firstChanges' = IF runNo = "first" THEN all_changes ELSE firstChanges
    /\ UNCHANGED <<loaded, env, previous_state, idx, all_changes, upstream, runNo,
                   discordLog, telegramLog, sendPos, failures, reads, visited,
                   cmp, program, targets>>

\* the program is started again, with the environment and the upstream data
\* of the first run
Rerun ==
    /\ pc = "done"
    /\ runNo = "first"
    /\ runNo' = "second"
    /\ pc' = "main"
    /\ previous_state' = NoMonitor
    /\ loaded' = << >>
    /\ idx' = 1
    /\ all_changes' = << >>
    /\ discordLog' = << >>
    /\ telegramLog' = << >>
    /\ sendPos' = 1
    /\ failures' = 0
    /\ reads' = 0
    /\ writes' = 0
    /\ visited' = << >>
    /\ cmp' = NoCmp
    /\ UNCHANGED <<env, file, upstream, firstSaved, firstChanges, program, targets>>

Next ==
    \/ Main
    \/ RunPlatform
    \/ BeginNotify
    \/ SendDiscord
    \/ EndDiscord
    \/ SendTelegram
    \/ EndTelegram
    \/ SaveState
    \/ Rerun

Spec == Init /\ [][Next]_vars

(***************************************************************************)
(* Claims about extract_targets (SpecExtract)                              *)
(***************************************************************************)
\* the items the claim lets contribute: those of every category whose value is
\* a sequence, or those of a flat sequence
ClaimItems(prog) ==
    IF ~HasKey(prog, "targets") THEN {}
    ELSE LET tg == At(prog, "targets")
         IN IF tg.t = "dict"
            THEN UNION {{tg.entries[c].v.items[i] : i \in DOMAIN tg.entries[c].v.items} :
                           c \in {c \in DOMAIN tg.entries : tg.entries[c].v.t = "list"}}
            ELSE IF tg.t = "list" THEN {tg.items[i] : i \in DOMAIN tg.items}
            ELSE {}

IdFields == << "target", "endpoint", "asset_identifier" >>

\* what one item contributes according to the claim
ClaimContribution(item) ==
    IF item.t = "str" THEN {item.s}
    ELSE IF item.t = "dict"
    THEN LET nonEmpty == {i \in DOMAIN IdFields : Truthy(Get(item, IdFields[i]))}
         IN IF nonEmpty = {} THEN {}
            ELSE {PyStr(Get(item, IdFields[CHOOSE i \in nonEmpty : \A j \in nonEmpty : i <= j]))}
    ELSE {}

Reverse(q) == [i \in 1..Len(q) |-> q[Len(q) + 1 - i]]

\* the program with its categories and the items of every sequence in the other order
Reordered(prog) ==
    IF ~HasKey(prog, "targets") THEN prog
    ELSE LET tg == At(prog, "targets")
             rv(v) == IF v.t = "list" THEN List(Reverse(v.items)) ELSE v
             tg2 == IF tg.t = "dict"
                    THEN Dict(Reverse([i \in DOMAIN tg.entries |->
                                          [k |-> tg.entries[i].k, v |-> rv(tg.entries[i].v)]]))
                    ELSE rv(tg)
         IN Dict([i \in DOMAIN prog.entries |->
                     IF prog.entries[i].k = "targets" THEN [k |-> "targets", v |-> tg2]
                     ELSE prog.entries[i]])

\* C9: extract_targets returns exactly the identifiers the items contribute (a
\* string itself, an object its first non-empty field among target, endpoint,
\* asset_identifier as a string, anything else nothing), whatever the order of
\* categories and items; the section 8 scenario gives {x.com, y.apk}.
C9_ExtractExact ==
    pc = "extract_return" =>
        /\ targets = UNION {ClaimContribution(item) : item \in ClaimItems(program)}
        /\ targets = extract_targets(Reordered(program))
        /\ (program = ScenarioProgram => targets = {"x.com", "y.apk"})

C9_Witness ==
    /\ pc = "extract_return"
    /\ program = ScenarioProgram
    /\ targets = {"x.com", "y.apk"}

(***************************************************************************)
(* Claims about compare_programs (SpecDiff)                                *)
(***************************************************************************)
\* name, else handle, else program_name
ClaimName(prog) ==
    IF Truthy(Get(prog, "name")) THEN Get(prog, "name")
    ELSE IF Truthy(Get(prog, "handle")) THEN Get(prog, "handle")
    ELSE Get(prog, "program_name")

\* the programs of the call that have a name
Named == {i \in DOMAIN cmp.data : Truthy(ClaimName(cmp.data[i]))}

NameOf(i) == ClaimName(cmp.data[i])

TargetSetOf(i) == extract_targets(cmp.data[i])

FoundBefore(i) ==
    /\ cmp.platform \in DOMAIN cmp.before
    /\ NameOf(i) \in DOMAIN cmp.before[cmp.platform]

PriorSetOf(i) == cmp.before[cmp.platform][NameOf(i)]

\* the k-th smallest element of a set of indices
Kth(S, k) == CHOOSE i \in S : Cardinality({j \in S : j <= i}) = k

InOrder(S) == [k \in 1..Cardinality(S) |-> Kth(S, k)]

IsNew(r) == r.new_program

IsUpdate(r) == ~r.new_program

Returned == cmp.called /\ ~cmp.raised

\* C1: every program not found in the prior state (platform absent from the
\* state, or name absent from the platform's snapshot) with a non-empty
\* TargetSet yields exactly one record, new_program, added = all, removed = {}.
C1_NewProgramRecords ==
    (pc = "compare_return" /\ Returned) =>
        LET S == {i \in Named : ~FoundBefore(i) /\ TargetSetOf(i) # {}}
            news == SelectSeq(cmp.changes, IsNew)
        IN /\ Len(news) = Cardinality(S)
           /\ \A k \in DOMAIN news :
                 /\ news[k].program = NameOf(Kth(S, k))
                 /\ news[k].added = TargetSetOf(Kth(S, k))
                 /\ news[k].removed = {}

\* C3: a program found in the prior snapshot with prior set A and current set B
\* yields a record iff A # B, with added = B \ A and removed = A \ B; every
\* record has added and removed disjoint and not both empty; a new program
\* with an empty TargetSet yields nothing.
C3_DiffRecords ==
    (pc = "compare_return" /\ Returned) =>
        LET S == {i \in Named : FoundBefore(i) /\ PriorSetOf(i) # TargetSetOf(i)}
            updates == SelectSeq(cmp.changes, IsUpdate)
        IN /\ Len(updates) = Cardinality(S)
           /\ \A k \in DOMAIN updates :
                 /\ updates[k].program = NameOf(Kth(S, k))
                 /\ updates[k].added = TargetSetOf(Kth(S, k)) \ PriorSetOf(Kth(S, k))
                 /\ updates[k].removed = PriorSetOf(Kth(S, k)) \ TargetSetOf(Kth(S, k))
           /\ \A k \in DOMAIN cmp.changes :
                 /\ cmp.changes[k].added \cap cmp.changes[k].removed = {}
                 /\ cmp.changes[k].added \cup cmp.changes[k].removed # {}
                 /\ cmp.changes[k].new_program =>
                       \E i \in Named : /\ NameOf(i) = cmp.changes[k].program
                                        /\ ~FoundBefore(i)
                                        /\ TargetSetOf(i) # {}

C3_Witness ==
    /\ pc = "compare_return" /\ Returned
    /\ \E k \in DOMAIN cmp.changes :
          /\ ~cmp.changes[k].new_program
          /\ cmp.changes[k].added = {"c.com"}
          /\ cmp.changes[k].removed = {"a.com"}
    /\ \E i \in Named : ~FoundBefore(i) /\ TargetSetOf(i) = {}

\* C8: after compare_programs returns, the platform's entry is exactly the new
\* snapshot: its keys are the names resolved from the current list (name, else
\* handle, else program_name), each with the TargetSet of the last program of
\* that name; programs only in the prior snapshot are dropped without a
\* record; the entries of the other platforms are unchanged.
C8_SnapshotReplaced ==
    (pc = "compare_return" /\ Returned) =>
        /\ cmp.platform \in DOMAIN previous_state
        /\ DOMAIN previous_state[cmp.platform] = {NameOf(i) : i \in Named}
        /\ \A i \in Named :
              (\A j \in Named : NameOf(j) = NameOf(i) => j <= i)
                  => previous_state[cmp.platform][NameOf(i)] = TargetSetOf(i)
        /\ \A k \in DOMAIN cmp.changes : cmp.changes[k].program \in {NameOf(i) : i \in Named}
        /\ DOMAIN previous_state \ {cmp.platform} = DOMAIN cmp.before \ {cmp.platform}
        /\ \A q \in DOMAIN previous_state \ {cmp.platform} : previous_state[q] = cmp.before[q]

C8_Witness ==
    /\ pc = "compare_return" /\ Returned
    /\ cmp.platform = "hackerone"
    /\ cmp.before = PriorStates_Two
    /\ DOMAIN previous_state["hackerone"] = {Str("Beta")}
    /\ Len(cmp.data) = 2
    /\ ~HasKey(cmp.data[1], "name")
    /\ Named # DOMAIN cmp.data
    /\ \A k \in DOMAIN cmp.changes : cmp.changes[k].program # Str("Acme")

(***************************************************************************)
(* Claims about the whole process (Spec)                                   *)
(***************************************************************************)
PastLoop == pc \in {"notify", "discord", "telegram", "save", "done"}

\* a platform's entry in a state: absent, or its snapshot
Entry(state, p) ==
    IF p \in DOMAIN state THEN [present |-> TRUE, snapshot |-> state[p]]
    ELSE [present |-> FALSE]

VisitedSet == {visited[i] : i \in DOMAIN visited}

Attempted(log, k) == \E j \in DOMAIN log : log[j].change = k

\* C2: when the second run is served the data of the first, it produces no
\* ChangeRecord and no notification and leaves the persisted state as the
\* first run saved it.
C2_SecondRunSilent ==
    (runNo = "second" /\ pc = "done") =>
        /\ all_changes = << >>
        /\ discordLog = << >> /\ telegramLog = << >>
        /\ file = firstSaved

\* C4: a platform whose fetch gives no data gets no ChangeRecord, keeps its
\* entry of the state as loaded (absent stays absent), also in the file saved at
\* the end, and the loop goes on to the next platform: a run that gets past
\* the loop has visited all five.
C4_FailedFetchSkipped ==
    /\ \A p \in VisitedSet :
          upstream[p] = << >> =>
              /\ Entry(previous_state, p) = Entry(loaded, p)
              /\ \A k \in DOMAIN all_changes : all_changes[k].platform # p
              /\ pc = "done" => Entry(file.content, p) = Entry(loaded, p)
    /\ (visited # << >> /\ cmp.data = << >>) =>
          /\ pc # "crashed"
          /\ previous_state = cmp.before
          /\ pc = "run_loop" => idx = Len(visited) + 1
    /\ PastLoop => visited = Platforms

C4_Witness ==
    /\ pc = "done"
    /\ upstream["hackerone"] = << >>
    /\ "hackerone" \in DOMAIN loaded
    /\ upstream["bugcrowd"] # << >>
    /\ upstream["intigriti"] = << >>
    /\ "intigriti" \notin DOMAIN previous_state
    /\ upstream["hackenproof"] # << >>
    /\ all_changes # << >>

\* C5: every run that passes the configuration check ends having called
\* save_state exactly once, after all five platforms and the notification
\* dispatch, whatever malformed records it was served.
C5_AlwaysPersists ==
    /\ pc # "crashed"
    /\ pc = "done" => (writes = 1 /\ visited = Platforms)
    /\ pc # "done" => writes = 0

\* C6: with none of the three credentials main() returns without any work: no
\* fetch, no notification, no read or write of the state file, no monitor.
C6_NoConfigNoWork ==
    (~env.webhook /\ ~env.token /\ ~env.chat) =>
        /\ pc \in {"main", "exit_noconfig"}
        /\ visited = << >> /\ upstream = << >>
        /\ discordLog = << >> /\ telegramLog = << >>
        /\ reads = 0 /\ writes = 0
        /\ file \in InitFiles
        /\ previous_state = NoMonitor

C6_Witness ==
    /\ ~env.webhook /\ ~env.token /\ ~env.chat
    /\ pc = "exit_noconfig"
    /\ file.exists

\* C7: a configured adapter attempts every ChangeRecord exactly once, in list
\* order, whether or not earlier attempts failed, and Telegram attempts all of
\* them whatever happened in Discord.
C7_EveryRecordAttempted ==
    /\ \A k \in DOMAIN discordLog : discordLog[k].change = k
    /\ \A k \in DOMAIN telegramLog : telegramLog[k].change = k
    /\ Len(discordLog) <= Len(all_changes) /\ Len(telegramLog) <= Len(all_changes)
    /\ (env.webhook /\ pc \in {"telegram", "save", "done"} /\ all_changes # << >>)
          => Len(discordLog) = Len(all_changes)
    /\ (env.token /\ env.chat /\ pc \in {"save", "done"} /\ all_changes # << >>)
          => Len(telegramLog) = Len(all_changes)

C7_Witness ==
    /\ pc = "done"
    /\ Len(all_changes) >= 2
    /\ Len(discordLog) = Len(all_changes)
    /\ Len(telegramLog) = Len(all_changes)
    /\ ~discordLog[1].ok
    /\ ~telegramLog[1].ok
    /\ discordLog[2].ok

\* C10: when the state is saved, every ChangeRecord of the run has had a
\* delivery attempt by Discord or by Telegram.
C10_NoChangeUnannounced ==
    pc = "done" =>
        \A k \in DOMAIN all_changes : Attempted(discordLog, k) \/ Attempted(telegramLog, k)

====
